---- MODULE Spec2Model ----
(***************************************************************************)
(* Model of Inugami's Shader (src/src/inugami/shader.cpp, the branch built *)
(* without INU_NO_SHADERS): construction (compile, attach, link, detach,   *)
(* delete, uniform introspection), the shared program record, the          *)
(* thread-local bind tracker and uniform lookup, together with the part of *)
(* the OpenGL object model those calls rely on.                            *)
(*                                                                         *)
(* Strings are sequences of characters; a character is a one-token string. *)
(* Operations are synchronous calls (spec section 5): the model interleaves *)
(* whole operations of the threads. The constructor is the one operation   *)
(* cut into steps, so that the order of its driver calls is visible; no    *)
(* other operation runs between two of its steps.                          *)
(***************************************************************************)
EXTENDS Integers, Sequences, FiniteSets, TLC

\* ------------------------------------------------------------------ bounds
MaxProgramNames == 2
MaxShaderNames == 2
MaxUniforms == 2

\* ------------------------------------------------------- program constants
NumStages == 5
InfoLogBufSize == 1024

\* Two threads, each with its own context in one share group, and two Shader
\* objects (a Shader and its copy, or two separately constructed Shaders).
Threads == {1, 2}
Handles == {1, 2}
\* A Shared record is held by at least one Shader object.
ShareSlots == Handles
ProgramNames == 1..MaxProgramNames
ShaderNames == 1..MaxShaderNames

\* Mutant: a table that starts with the fragment stage.
shaderTypesFragmentFirst ==
    << "GL_FRAGMENT_SHADER", "GL_VERTEX_SHADER", "GL_TESS_CONTROL_SHADER",
       "GL_TESS_EVALUATION_SHADER", "GL_GEOMETRY_SHADER" >>

\* static constexpr GLuint shaderTypes[5]
shaderTypes ==
    << "GL_VERTEX_SHADER", "GL_TESS_CONTROL_SHADER", "GL_TESS_EVALUATION_SHADER",
       "GL_GEOMETRY_SHADER", "GL_FRAGMENT_SHADER" >>

SeqsUpTo(S, n) == UNION { [1..k -> S] : k \in 0..n }

\* ------------------------------------------------------------------ inputs
\* Stage source texts a caller may put in a slot (<<>> is the empty string).
SourceTexts == { <<>>, <<"a">>, <<"b", "c">> }
\* Diagnostic logs the driver may hold for a failed compile or link.
MaxLogLen == 2
DriverLogs == SeqsUpTo({"e"}, MaxLogLen)
\* What a read through a dangling buffer may yield as a C string.
GarbageStrings == { <<>>, <<"?">> }
\* Active uniforms a driver may report, as (name, size, type).
ActiveUniformPool ==
    { [name |-> "u_color", size |-> 1, type |-> "GL_FLOAT_VEC4"],
      [name |-> "u_color", size |-> 2, type |-> "GL_FLOAT_VEC3"],
      [name |-> "u_mvp",   size |-> 1, type |-> "GL_FLOAT_MAT4"] }
UniformNames == { u.name : u \in ActiveUniformPool }
LookupNames == UniformNames \cup { "does_not_exist" }
Locations == { -1, 0 }


VARIABLES
    handles,       \* Shader object -> its `share` (a slot), 0 when no such object
    shares,        \* Shared records: program, uniforms, shared_ptr use count
    boundProgram,  \* thread_local Shader::boundProgram, one per thread
    programs,      \* driver: program name -> [status, linked]
    shaders,       \* driver: shader name -> [live, attached, flagged]
    current,       \* driver: the program in use on each thread's context
    ctor,          \* the construction in flight (pc = "idle" when none)
    origin,        \* history: the construction a Shader object descends from
    last           \* history: the operation that produced this state

vars == << handles, shares, boundProgram, programs, shaders, current,
           ctor, origin, last >>

\* ----------------------------------------------------------------- strings
Min(a, b) == IF a < b THEN a ELSE b
Take(s, n) == SubSeq(s, 1, Min(n, Len(s)))
NUL == "\\0"

\* std::string(const char*): the characters before the first NUL.
RECURSIVE CStr(_)
CStr(buf) ==
    IF buf = <<>> \/ Head(buf) = NUL THEN <<>>
    ELSE <<Head(buf)>> \o CStr(Tail(buf))

\* s contains t as a contiguous substring.
Contains(s, t) ==
    \E i \in 0..(Len(s) - Len(t)) : SubSeq(s, i + 1, i + Len(t)) = t

ShaderE_CompileError(codeStr, errStr) ==
    <<"Shader compile error:\n">> \o errStr
        \o (IF codeStr # <<>> THEN <<"\n    -- SHADER CODE --\n">> \o codeStr
            ELSE <<>>)

ShaderE_LinkError(errStr) == <<"Shader link error:\n">> \o errStr

\* ------------------------------------------------------------------ driver
\* GL_INFO_LOG_LENGTH: the log's length with its terminator; a driver with no
\* log reports 0, and some report 1 for an empty one.
InfoLogLengths(log) == IF log = <<>> THEN {0, 1} ELSE { Len(log) + 1 }

\* glGet*InfoLog(obj, bufSize, ..): at most bufSize-1 characters and a NUL.
glGetInfoLog(log, bufSize) == Take(log, bufSize - 1) \o <<NUL>>

FreeShader == [live |-> FALSE, attached |-> 0, flagged |-> FALSE]

InUse(cur, p) == \E t \in Threads : cur[t] = p

\* The shaders of a program that stops existing are detached; one already
\* flagged for deletion goes with it.
DropAttachments(shs, p) ==
    [id \in ShaderNames |->
        IF shs[id].attached = p
        THEN IF shs[id].flagged THEN FreeShader
             ELSE [shs[id] EXCEPT !.attached = 0]
        ELSE shs[id]]

glCreateShader(shs, id) ==
    [shs EXCEPT ![id] = [live |-> TRUE, attached |-> 0, flagged |-> FALSE]]

glAttachShader(shs, p, id) == [shs EXCEPT ![id].attached = p]

glDetachShader(shs, p, id) ==
    IF shs[id].attached # p THEN shs
    ELSE IF shs[id].flagged THEN [shs EXCEPT ![id] = FreeShader]
    ELSE [shs EXCEPT ![id].attached = 0]

glDeleteShader(shs, id) ==
    IF ~shs[id].live THEN shs
    ELSE IF shs[id].attached # 0 THEN [shs EXCEPT ![id].flagged = TRUE]
    ELSE [shs EXCEPT ![id] = FreeShader]

FreeProgram == [status |-> "free", linked |-> FALSE]

glCreateProgram(progs, p) ==
    [progs EXCEPT ![p] = [status |-> "live", linked |-> FALSE]]

\* glLinkProgram: the link status is the driver's verdict.
glLinkProgram(progs, p, status) == [progs EXCEPT ![p].linked = status]

\* glDeleteProgram: a program in use on some context is only flagged for
\* deletion ("flagged"); its name stays taken until it is in use nowhere.
glDeleteProgramP(progs, cur, p) ==
    IF InUse(cur, p) THEN [progs EXCEPT ![p].status = "flagged"]
    ELSE [progs EXCEPT ![p] = FreeProgram]

glDeleteProgramS(shs, cur, p) ==
    IF InUse(cur, p) THEN shs ELSE DropAttachments(shs, p)

\* glUseProgram(p) on thread t: GL_INVALID_OPERATION, and no change, when p is
\* not linked successfully. Otherwise p is in use on t, and the program it
\* replaces, if flagged and in use nowhere else, is deleted now.
glUseProgramC(progs, cur, t, p) ==
    IF progs[p].linked THEN [cur EXCEPT ![t] = p] ELSE cur

Released(progs, cur, t, p) ==
    LET old == cur[t] IN
    IF old # 0 /\ progs[old].status = "flagged"
       /\ ~InUse(glUseProgramC(progs, cur, t, p), old)
    THEN {old} ELSE {}

glUseProgramP(progs, cur, t, p) ==
    [q \in ProgramNames |->
        IF q \in Released(progs, cur, t, p) THEN FreeProgram ELSE progs[q]]

glUseProgramS(shs, progs, cur, t, p) ==
    IF Released(progs, cur, t, p) = {} THEN shs
    ELSE DropAttachments(shs, cur[t])

\* ------------------------------------------------------------------ records
NoShare == [alive |-> FALSE, program |-> 0, uniforms |-> <<>>, useCount |-> 0]
NoEntry == [size |-> 0, type |-> "none", location |-> -2]

IdleCtor ==
    [pc |-> "idle", h |-> 0, share |-> 0, i |-> 0, ids |-> <<>>,
     linked |-> "none", len |-> 0]

\* op: the operation; t, h: its thread and Shader; ret: how it ended;
\* flag: what it returned (isBound) or found at entry (bind); used: whether it
\* called glUseProgram; entry/name: uniform(); the rest: construction (slot and
\* kind: the stage slot a step of the loop went through and the type of the
\* shader it created there; len: the link log length read; au, loc: what the
\* driver reported to initUniforms).
LastRec(op, t, h) ==
    [op |-> op, t |-> t, h |-> h, ret |-> "ok", flag |-> FALSE, used |-> FALSE,
     name |-> "", entry |-> NoEntry, share |-> 0, program |-> 0, ids |-> <<>>,
     msg |-> <<>>, src |-> <<>>, log |-> <<>>, linked |-> "none",
     deleted |-> 0, slot |-> 0, kind |-> "none", len |-> 0, au |-> <<>>,
     loc |-> <<>>]

Idle == ctor.pc = "idle"
Live(h) == handles[h] # 0
ProgramOf(h) == shares[handles[h]].program

Init ==
    /\ handles = [h \in Handles |-> 0]
    /\ shares = [s \in ShareSlots |-> NoShare]
    /\ boundProgram = [t \in Threads |-> 0]
    /\ programs = [p \in ProgramNames |-> FreeProgram]
    /\ shaders = [id \in ShaderNames |-> FreeShader]
    /\ current = [t \in Threads |-> 0]
    /\ ctor = IdleCtor
    /\ origin = [h \in Handles |-> 0]
    /\ last = LastRec("none", 0, 0)


\* ------------------------------------------------------------ Shader::Shared
EmptyTable == [n \in {} |-> NoEntry]

\* Shared::Shared(): program(glCreateProgram()), uniforms(); held by one
\* shared_ptr.
SharedCtor(p) ==
    [alive |-> TRUE, program |-> p, uniforms |-> EmptyTable, useCount |-> 1]

\* shared_ptr copy: one more owner of the same record.
Acquire(sh, s) == [sh EXCEPT ![s].useCount = @ + 1]

\* shared_ptr release: the last owner runs ~Shared().
LastOwner(sh, s) == sh[s].useCount = 1

Release(sh, s) ==
    IF LastOwner(sh, s) THEN [sh EXCEPT ![s] = NoShare]
    ELSE [sh EXCEPT ![s].useCount = @ - 1]

\* Mutant: a destructor that forgets glDeleteProgram.
SharedDtorKeeps(progs, cur, p) == progs

\* ~Shared(): glDeleteProgram(program), as seen in the driver's program table.
SharedDtorP(progs, cur, p) == glDeleteProgramP(progs, cur, p)

SharedDtorS(shs, cur, p) == glDeleteProgramS(shs, cur, p)

\* Mutant: a destructor that resets the tracker of the program it deletes.
SharedDtorUnbinds(bp, p) == [t \in Threads |-> IF bp[t] = p THEN 0 ELSE bp[t]]

\* ~Shared() and Shader::boundProgram: the destructor's body is the one
\* glDeleteProgram call, the tracker is not written.
SharedDtorB(bp, p) == bp

\* ------------------------------------------------------------- bind tracker
\* Mutant: an isBound() that asks whether the thread has any program bound.
isBoundAny(bp, t, p) == bp[t] # 0

\* isBound(): boundProgram == share->program
isBound(bp, t, p) == bp[t] = p

\* Mutant: a bind() without the early return.
BindNeverSkips(bp, t, p) == FALSE

\* Mutant: a bind() that returns early whenever any program is tracked.
BindSkipsWhenBound(bp, t, p) == bp[t] # 0

\* bind(): if (isBound()) return;
BindSkips(bp, t, p) == isBound(bp, t, p)

\* Mutant: a bind() that activates the program and forgets the tracker.
BindStoreNothing(bp, t, p) == bp

\* Mutant: a boundProgram that is one global instead of thread_local.
BindStoreGlobal(bp, t, p) == [u \in Threads |-> p]

\* bind(): boundProgram = share->program, on the calling thread's copy.
BindStore(bp, t, p) == [bp EXCEPT ![t] = p]

\* ------------------------------------------------------------ uniform table
\* Mutant: a lookup through operator[], which hands out a default entry for a
\* name the table does not hold.
UniformIndex(table, name) ==
    [present |-> TRUE,
     entry |-> IF name \in DOMAIN table THEN table[name] ELSE NoEntry]

UniformFind(table, name) ==
    IF name \in DOMAIN table
    THEN [present |-> TRUE, entry |-> table[name]]
    ELSE [present |-> FALSE, entry |-> NoEntry]

\* Mutant: an insert() that keeps the entry a name already has.
TableInsert(table, name, e) ==
    [n \in (DOMAIN table) \cup {name} |->
        IF n \in DOMAIN table THEN table[n] ELSE e]

\* share->uniforms[name] = tmpUniform
TablePut(table, name, e) ==
    [n \in (DOMAIN table) \cup {name} |-> IF n = name THEN e ELSE table[n]]

\* The loop of initUniforms over the indices 1..Len(au) of the driver's active
\* uniforms au, with loc the driver's location of each name.
RECURSIVE FillUniforms(_, _, _, _)
FillUniforms(table, au, loc, i) ==
    IF i > Len(au) THEN table
    ELSE FillUniforms(
            TablePut(table, au[i].name,
                     [size |-> au[i].size, type |-> au[i].type,
                      location |-> loc[au[i].name]]),
            au, loc, i + 1)

initUniforms(au, loc) == FillUniforms(EmptyTable, au, loc, 1)

\* ------------------------------------------------------------- construction
FreeHandle(h) == handles[h] = 0
FreeSlot == CHOOSE s \in ShareSlots :
                ~shares[s].alive /\ \A s2 \in ShareSlots :
                    ~shares[s2].alive => s <= s2
FreeShaders == { id \in ShaderNames : ~shaders[id].live }
FreshShader == CHOOSE id \in FreeShaders : \A j \in FreeShaders : id <= j
UnusedOrigin(g) == \A h \in Handles : Live(h) => origin[h] # g
FreshOrigin == CHOOSE g \in Handles :
                UnusedOrigin(g) /\ \A g2 \in Handles : UnusedOrigin(g2) => g <= g2

RECURSIVE AttachAll(_, _, _)
AttachAll(shs, p, ids) ==
    IF ids = <<>> THEN shs
    ELSE AttachAll(glAttachShader(shs, p, Head(ids)), p, Tail(ids))

\* Mutant: a cleanup loop that detaches and forgets glDeleteShader.
RECURSIVE DetachAllOnly(_, _, _)
DetachAllOnly(shs, p, ids) ==
    IF ids = <<>> THEN shs
    ELSE DetachAllOnly(glDetachShader(shs, p, Head(ids)), p, Tail(ids))

RECURSIVE DetachDeleteAll(_, _, _)
DetachDeleteAll(shs, p, ids) ==
    IF ids = <<>> THEN shs
    ELSE DetachDeleteAll(
            glDeleteShader(glDetachShader(shs, p, Head(ids)), Head(ids)),
            p, Tail(ids))

\* What the constructor reports in `last` when it ends.
CtorEnd(ret, ids, msg, src, log, linked, deleted) ==
    [LastRec("construct", 0, ctor.h) EXCEPT
        !.ret = ret, !.share = ctor.share,
        !.program = shares[ctor.share].program, !.ids = ids, !.msg = msg,
        !.src = src, !.log = log, !.linked = linked, !.deleted = deleted]

\* Mutant: a `share` held through a raw pointer, which unwinding leaks.
UnwindLeaks(shs) ==
    /\ shares' = shares
    /\ programs' = programs
    /\ shaders' = shs
    /\ ctor' = IdleCtor

\* Mutant: an unwinding that also deletes the stage handles made so far, as a
\* guard object over `ids` would.
UnwindDeletesStages(shs) ==
    LET p == shares[ctor.share].program
        made == { ctor.ids[k] : k \in 1..Len(ctor.ids) }
                  \cup { id \in ShaderNames : shs[id].live /\ ~shaders[id].live }
    IN  /\ shares' = Release(shares, ctor.share)
        /\ programs' = SharedDtorP(programs, current, p)
        /\ shaders' = [id \in ShaderNames |->
                         IF id \in made THEN FreeShader ELSE shs[id]]
        /\ ctor' = IdleCtor

\* An exception leaves the constructor: the member `share` is destroyed, and
\* with it the Shared record, whose destructor deletes the program. shs is the
\* shader table at the throw.
Unwind(shs) ==
    LET p == shares[ctor.share].program
        dying == LastOwner(shares, ctor.share)
    IN  /\ shares' = Release(shares, ctor.share)
        /\ programs' = IF dying THEN SharedDtorP(programs, current, p)
                       ELSE programs
        /\ shaders' = IF dying THEN SharedDtorS(shs, current, p) ELSE shs
        /\ ctor' = IdleCtor

UnwindDeletes == IF LastOwner(shares, ctor.share) THEN 1 ELSE 0

\* Shader::Shader, member initialiser: share(std::make_shared<Shared>()).
Begin(h, p, K) ==
    /\ Idle
    /\ FreeHandle(h)
    /\ Cardinality({ s \in ShareSlots : shares[s].alive }) < K
    /\ programs[p].status = "free"
    /\ shares' = [shares EXCEPT ![FreeSlot] = SharedCtor(p)]
    /\ programs' = glCreateProgram(programs, p)
    /\ ctor' = [IdleCtor EXCEPT !.pc = "compile", !.h = h,
                                !.share = FreeSlot, !.i = 1]
    /\ last' = [LastRec("begin", 0, h) EXCEPT !.program = p]
    /\ UNCHANGED << handles, boundProgram, shaders, current, origin >>

\* An empty slot of the stage loop: nothing is created.
SkipStage ==
    /\ ctor.pc = "compile" /\ ctor.i <= NumStages
    /\ ctor' = [ctor EXCEPT !.i = @ + 1]
    /\ last' = [LastRec("stage", 0, ctor.h) EXCEPT !.slot = ctor.i]
    /\ UNCHANGED << handles, shares, boundProgram, programs, shaders, current,
                    origin >>

\* A non-empty slot whose source compiles.
CompileStage(src) ==
    /\ ctor.pc = "compile" /\ ctor.i <= NumStages
    /\ src # <<>> /\ FreeShaders # {}
    /\ shaders' = glCreateShader(shaders, FreshShader)
    /\ ctor' = [ctor EXCEPT !.i = @ + 1, !.ids = Append(@, FreshShader)]
    /\ last' = [LastRec("stage", 0, ctor.h) EXCEPT
                  !.slot = ctor.i, !.kind = shaderTypes[ctor.i],
                  !.ids = <<FreshShader>>]
    /\ UNCHANGED << handles, shares, boundProgram, programs, current, origin >>

\* The error string the compile lambda builds from a log whose reported
\* length is len >= 1: a vector of len characters, filled by
\* glGetShaderInfoLog(id, 1024, ..) and read back as a C string.
CompileLog(log, len) == CStr(Take(glGetInfoLog(log, InfoLogBufSize), len))

\* A non-empty slot whose compile status is GL_FALSE: the lambda throws
\* ShaderE_CompileError(codeStr, &log[0]).
CompileFail(src, log, len) ==
    /\ ctor.pc = "compile" /\ ctor.i <= NumStages
    /\ src # <<>> /\ FreeShaders # {}
    /\ len \in InfoLogLengths(log) /\ len >= 1
    /\ Unwind(glCreateShader(shaders, FreshShader))
    /\ last' = CtorEnd("CompileError", Append(ctor.ids, FreshShader),
                       ShaderE_CompileError(src, CompileLog(log, len)),
                       src, log, "none", UnwindDeletes)
    /\ UNCHANGED << handles, boundProgram, current, origin >>

\* The same with a reported log length of 0: the vector is empty and &log[0]
\* is undefined. The process dies, or the error is built from whatever the
\* pointer yields.
CompileFailNoLog(src, junk, dies) ==
    /\ ctor.pc = "compile" /\ ctor.i <= NumStages
    /\ src # <<>> /\ FreeShaders # {}
    /\ 0 \in InfoLogLengths(<<>>)
    /\ IF dies
       THEN /\ ctor' = [ctor EXCEPT !.pc = "crashed",
                                    !.ids = Append(@, FreshShader)]
            /\ shaders' = glCreateShader(shaders, FreshShader)
            /\ last' = CtorEnd("crash", Append(ctor.ids, FreshShader), <<>>,
                               src, <<>>, "none", 0)
            /\ UNCHANGED << shares, programs >>
       ELSE /\ Unwind(glCreateShader(shaders, FreshShader))
            /\ last' = CtorEnd("CompileError", Append(ctor.ids, FreshShader),
                               ShaderE_CompileError(src, junk),
                               src, <<>>, "none", UnwindDeletes)
    /\ UNCHANGED << handles, boundProgram, current, origin >>

\* for (auto &p : ids) glAttachShader(share->program, p);
Attach ==
    /\ ctor.pc = "compile" /\ ctor.i > NumStages
    /\ shaders' = AttachAll(shaders, shares[ctor.share].program, ctor.ids)
    /\ ctor' = [ctor EXCEPT !.pc = "link"]
    /\ last' = LastRec("attach", 0, ctor.h)
    /\ UNCHANGED << handles, shares, boundProgram, programs, current, origin >>

\* Mutant: a status check that throws on every failed link.
LinkThrowsOnFailure(status, len) == ~status

\* if (status == GL_FALSE) { ... if (len>=1) throw ... }
LinkThrows(status, len) == ~status /\ len >= 1

\* glLinkProgram and a status check that does not throw.
Link(status, len) ==
    /\ ctor.pc = "link"
    /\ len \in InfoLogLengths(<<>>)
    /\ status => len = 0
    /\ ~LinkThrows(status, len)
    /\ programs' = glLinkProgram(programs, shares[ctor.share].program, status)
    /\ ctor' = [ctor EXCEPT !.pc = "cleanup",
                            !.linked = IF status THEN "ok" ELSE "failed",
                            !.len = len]
    /\ last' = [LastRec("link", 0, ctor.h) EXCEPT !.len = len]
    /\ UNCHANGED << handles, shares, boundProgram, shaders, current, origin >>

\* glLinkProgram and a status check that throws ShaderE_LinkError(&log[0]).
LinkFail(log, len) ==
    /\ ctor.pc = "link"
    /\ len \in InfoLogLengths(log)
    /\ LinkThrows(FALSE, len)
    /\ Unwind(shaders)
    /\ last' = [CtorEnd("LinkError", ctor.ids,
                        ShaderE_LinkError(CStr(glGetInfoLog(log, len))),
                        <<>>, log, "failed", UnwindDeletes)
                EXCEPT !.len = len]
    /\ UNCHANGED << handles, boundProgram, current, origin >>

\* for (auto &p : ids) { glDetachShader(share->program, p); glDeleteShader(p); }
Cleanup ==
    /\ ctor.pc = "cleanup"
    /\ shaders' = DetachDeleteAll(shaders, shares[ctor.share].program, ctor.ids)
    /\ ctor' = [ctor EXCEPT !.pc = "uniforms"]
    /\ last' = LastRec("cleanup", 0, ctor.h)
    /\ UNCHANGED << handles, shares, boundProgram, programs, current, origin >>

\* initUniforms() and the constructor's return: the Shader exists from here.
Finish(au, loc) ==
    /\ ctor.pc = "uniforms"
    /\ shares' = [shares EXCEPT ![ctor.share].uniforms = initUniforms(au, loc)]
    /\ handles' = [handles EXCEPT ![ctor.h] = ctor.share]
    /\ origin' = [origin EXCEPT ![ctor.h] = FreshOrigin]
    /\ ctor' = IdleCtor
    /\ last' = [CtorEnd("Shader", ctor.ids, <<>>, <<>>, <<>>, ctor.linked, 0)
                EXCEPT !.len = ctor.len, !.au = au, !.loc = loc]
    /\ UNCHANGED << boundProgram, programs, shaders, current >>

\* ----------------------------------------------------------- Shader handles
\* Mutant: a copy constructor that clones the Shared record into a program
\* of its own.
CopyClones(h, h2) ==
    /\ Idle
    /\ Live(h) /\ FreeHandle(h2)
    /\ \E p \in ProgramNames :
         /\ programs[p].status = "free"
         /\ programs' = [programs EXCEPT ![p] = programs[ProgramOf(h)]]
         /\ shares' = [shares EXCEPT ![FreeSlot] =
                         [shares[handles[h]] EXCEPT !.program = p,
                                                   !.useCount = 1]]
         /\ last' = [LastRec("copy", 0, h2) EXCEPT !.share = FreeSlot,
                                                  !.program = p]
    /\ handles' = [handles EXCEPT ![h2] = FreeSlot]
    /\ origin' = [origin EXCEPT ![h2] = origin[h]]
    /\ UNCHANGED << boundProgram, shaders, current, ctor >>

\* Shader(const Shader&): the copy holds the same Shared.
Copy(h, h2) ==
    /\ Idle
    /\ Live(h) /\ FreeHandle(h2)
    /\ handles' = [handles EXCEPT ![h2] = handles[h]]
    /\ shares' = Acquire(shares, handles[h])
    /\ origin' = [origin EXCEPT ![h2] = origin[h]]
    /\ last' = [LastRec("copy", 0, h2) EXCEPT !.share = handles[h],
                                             !.program = ProgramOf(h)]
    /\ UNCHANGED << boundProgram, programs, shaders, current, ctor >>

\* ~Shader(): the member `share` is released.
Destroy(h) ==
    /\ Idle
    /\ Live(h)
    /\ LET s == handles[h]
           p == shares[s].program
           dying == LastOwner(shares, s)
       IN  /\ shares' = Release(shares, s)
           /\ programs' = IF dying THEN SharedDtorP(programs, current, p)
                          ELSE programs
           /\ shaders' = IF dying THEN SharedDtorS(shaders, current, p)
                         ELSE shaders
           /\ boundProgram' = IF dying THEN SharedDtorB(boundProgram, p)
                              ELSE boundProgram
           /\ last' = [LastRec("destroy", 0, h) EXCEPT
                         !.share = s, !.program = p,
                         !.deleted = IF dying THEN 1 ELSE 0]
    /\ handles' = [handles EXCEPT ![h] = 0]
    /\ origin' = [origin EXCEPT ![h] = 0]
    /\ UNCHANGED << current, ctor >>

\* Shader::bind(): if (isBound()) return; glUseProgram; boundProgram = program.
Bind(t, h) ==
    /\ Idle
    /\ Live(h)
    /\ LET p == ProgramOf(h)
           skip == BindSkips(boundProgram, t, p)
       IN  /\ boundProgram' = IF skip THEN boundProgram
                              ELSE BindStore(boundProgram, t, p)
           /\ current' = IF skip THEN current
                         ELSE glUseProgramC(programs, current, t, p)
           /\ programs' = IF skip THEN programs
                          ELSE glUseProgramP(programs, current, t, p)
           /\ shaders' = IF skip THEN shaders
                         ELSE glUseProgramS(shaders, programs, current, t, p)
           /\ last' = [LastRec("bind", t, h) EXCEPT
                         !.flag = (boundProgram[t] = p), !.used = ~skip,
                         !.program = p,
                         !.share = handles[h]]
    /\ UNCHANGED << handles, shares, ctor, origin >>

\* Shader::isBound()
IsBound(t, h) ==
    /\ Idle
    /\ Live(h)
    /\ last' = [LastRec("isBound", t, h) EXCEPT
                  !.flag = isBound(boundProgram, t, ProgramOf(h)),
                  !.program = ProgramOf(h), !.share = handles[h]]
    /\ UNCHANGED << handles, shares, boundProgram, programs, shaders, current,
                    ctor, origin >>

\* Shader::uniform(name)
Uniform(h, name) ==
    /\ Idle
    /\ Live(h)
    /\ LET r == UniformFind(shares[handles[h]].uniforms, name)
       IN  last' = [LastRec("uniform", 0, h) EXCEPT
                      !.name = name, !.flag = r.present, !.entry = r.entry,
                      !.share = handles[h]]
    /\ UNCHANGED << handles, shares, boundProgram, programs, shaders, current,
                    ctor, origin >>

\* The operations over the Shader objects H with at most K programs held at
\* once, a driver whose programs report active uniforms from AU at locations
\* from LOC, and uniform lookups of the names N.
NextOver(H, K, AU, LOC, N) ==
    \/ \E h \in H, p \in ProgramNames : Begin(h, p, K)
    \/ SkipStage
    \/ \E src \in SourceTexts : CompileStage(src)
    \/ \E src \in SourceTexts, log \in DriverLogs, len \in 1..MaxLogLen + 1 :
            CompileFail(src, log, len)
    \/ \E src \in SourceTexts, junk \in GarbageStrings, dies \in BOOLEAN :
            CompileFailNoLog(src, junk, dies)
    \/ Attach
    \/ \E status \in BOOLEAN, len \in 0..1 : Link(status, len)
    \/ \E log \in DriverLogs, len \in 0..MaxLogLen + 1 : LinkFail(log, len)
    \/ Cleanup
    \/ \E au \in AU, loc \in LOC : Finish(au, loc)
    \/ \E h \in H : Destroy(h)
    \/ \E t \in Threads, h \in H : Bind(t, h)
    \/ \E t \in Threads, h \in H : IsBound(t, h)
    \/ \E h \in H, name \in N : Uniform(h, name)

\* Spec: two Shader objects, which may be copies of each other, over programs
\* that report no active uniform.
NoUniforms == { <<>> }
NoLocations == { [n \in UniformNames |-> -1] }

Next ==
    \/ NextOver(Handles, Cardinality(Handles), NoUniforms, NoLocations,
                {"u_color"})
    \/ \E h \in Handles, h2 \in Handles : Copy(h, h2)

Spec == Init /\ [][Next]_vars

\* SpecUniforms: one Shader object, whose program reports any sequence of at
\* most MaxUniforms active uniforms, at any locations.
NextUniforms ==
    NextOver({1}, 1, SeqsUpTo(ActiveUniformPool, MaxUniforms),
             [UniformNames -> Locations], LookupNames)

SpecUniforms == Init /\ [][NextUniforms]_vars


\* ================================================================== claims
\* s.isBound() as thread t sees it.
Reports(t, h) == isBound(boundProgram, t, ProgramOf(h))

Holders(s) == { h \in Handles : handles[h] = s }
InFlight(s) == IF ctor.pc # "idle" /\ ctor.share = s THEN 1 ELSE 0
Ended(ret) == last.op = "construct" /\ last.ret = ret
Deleted(id) == ~shaders[id].live /\ shaders[id].attached = 0
Range(seq) == { seq[k] : k \in 1..Len(seq) }

\* C1 (as claimed): when every non-empty stage compiled and was attached, each
\* attached stage handle is detached and deleted by the time construction
\* ends, whether it returns a Shader or fails with LinkError.
C1_StageCleanup ==
    (Ended("Shader") \/ Ended("LinkError")) =>
        \A id \in Range(last.ids) : Deleted(id)

\* C2 (as claimed): whenever all non-empty stages compile and the link status
\* reports failure, construction fails with LinkError and returns no Shader.
C2_LinkFailureReported ==
    (last.op = "construct" /\ last.linked = "failed") =>
        (last.ret = "LinkError" /\ ~Live(last.h))

\* C3: a Shared's program is live exactly as long as a Shader (or the
\* constructor in flight) holds the record, whose use count is the number of
\* its holders; distinct records own distinct programs and every live program
\* has a record, so a copy creates none; a destroy deletes the program exactly
\* when it releases the last holder, and then the program is live no more.
C3_SharedOwnership ==
    /\ \A h \in Handles : Live(h) => shares[handles[h]].alive
    /\ \A s \in ShareSlots : shares[s].alive =>
          /\ programs[shares[s].program].status = "live"
          /\ shares[s].useCount = Cardinality(Holders(s)) + InFlight(s)
          /\ shares[s].useCount >= 1
          /\ \A s2 \in ShareSlots \ {s} :
                shares[s2].alive => shares[s2].program # shares[s].program
    /\ Cardinality({ p \in ProgramNames : programs[p].status = "live" })
          = Cardinality({ s \in ShareSlots : shares[s].alive })
    /\ last.op = "destroy" =>
          /\ last.deleted = 1 <=> Holders(last.share) = {}
          /\ last.deleted = 1 => programs[last.program].status # "live"
          /\ last.deleted = 0 => programs[last.program].status = "live"
    /\ last.op = "copy" =>
          /\ last.deleted = 0
          /\ Cardinality(Holders(last.share)) >= 2

\* A copy was destroyed and the program lived on; or the last holder went.
C3_Witness ==
    /\ last.op = "destroy" /\ last.deleted = 1
    /\ \E h \in Handles : Live(h) /\ ProgramOf(h) # last.program

\* C4: a bind() through s on thread t leaves s.isBound() true on t, and it
\* stays true on t for as long as s exists and t performs no other bind();
\* isBound() returns exactly that.
C4_BindThenIsBound ==
    [][ \A t \in Threads, h \in Handles :
          /\ (last'.op = "bind" /\ last'.t = t /\ last'.h = h) =>
                boundProgram'[t] = shares'[handles'[h]].program
          /\ ( /\ Live(h) /\ handles'[h] = handles[h] /\ origin'[h] = origin[h]
               /\ Reports(t, h)
               /\ ~(last'.op = "bind" /\ last'.t = t) ) =>
                boundProgram'[t] = shares'[handles'[h]].program
          /\ (last'.op = "isBound" /\ last'.t = t /\ last'.h = h) =>
                (last'.flag <=> boundProgram'[t] = shares'[handles'[h]].program)
      ]_vars

\* isBound() has just returned true on a thread, while the other thread has
\* another program bound.
C4_Witness ==
    /\ last.op = "isBound" /\ last.flag
    /\ \E u \in Threads \ {last.t} :
          boundProgram[u] # 0 /\ boundProgram[u] # boundProgram[last.t]

\* C5: a bind() that finds its program already the thread's active program
\* calls no glUseProgram and changes neither the tracker nor the driver's
\* current program.
C5_BindIdempotent ==
    [][ (last'.op = "bind" /\ last'.flag) =>
          /\ ~last'.used
          /\ boundProgram' = boundProgram
          /\ current' = current
          /\ programs' = programs ]_vars

C5_Witness == last.op = "bind" /\ last.flag /\ ~last.used

\* C6: a bind() on one thread changes neither the tracker of another thread
\* nor what isBound() reports there for any Shader.
C6_ThreadIsolation ==
    [][ last'.op = "bind" =>
          \A u \in Threads \ {last'.t} :
              /\ boundProgram'[u] = boundProgram[u]
              /\ \A h \in Handles : Live(h) =>
                    (Reports(u, h) <=>
                        boundProgram'[u] = shares'[handles'[h]].program) ]_vars

\* A bind() that activated its program while the other thread holds a
\* different one.
C6_Witness ==
    /\ last.op = "bind" /\ last.used
    /\ \E u \in Threads \ {last.t} :
          boundProgram[u] # 0 /\ boundProgram[u] # boundProgram[last.t]

\* C7: a Shader and its copies report the same isBound() on every thread,
\* and after a bind() through one of them all of them report true there.
C7_CopiesShareBindState ==
    /\ \A a \in Handles, b \in Handles :
          (Live(a) /\ Live(b) /\ origin[a] = origin[b]) =>
              \A t \in Threads : Reports(t, a) <=> Reports(t, b)
    /\ last.op = "bind" =>
          \A b \in Handles :
              (Live(b) /\ origin[b] = origin[last.h]) => Reports(last.t, b)

C7_Witness ==
    /\ last.op = "bind" /\ last.used
    /\ \E b \in Handles \ {last.h} :
          Live(b) /\ origin[b] = origin[last.h] /\ Reports(last.t, b)

\* C8: a construction that fails with CompileError or LinkError has deleted
\* the program it created, through the Shared record's destructor, and no
\* Shader holds that record or that program.
C8_FailedCtorDeletesProgram ==
    (Ended("CompileError") \/ Ended("LinkError")) =>
        /\ last.deleted = 1
        /\ programs[last.program].status = "free"
        /\ ~shares[last.share].alive
        /\ ~Live(last.h)
        /\ \A h \in Handles : Live(h) => ProgramOf(h) # last.program

C8_Witness ==
    /\ Ended("LinkError") /\ last.ids # <<>>
    /\ \E h \in Handles : Live(h)

\* C9 (as claimed): a construction whose stage with source S failed to compile
\* with driver log L fails with the CompileError built from S and L, whose
\* message contains both.
C9_CompileErrorContext ==
    (last.op = "construct" /\ last.src # <<>>) =>
        /\ last.ret = "CompileError"
        /\ last.msg = ShaderE_CompileError(last.src, last.log)
        /\ Contains(last.msg, last.src)
        /\ Contains(last.msg, last.log)

\* C10: uniform(name) returns a present entry, the table's own, exactly when
\* name is a key of the Shared record's table, an absent one otherwise; it
\* raises nothing and changes neither a table nor the bind state.
C10_UniformLookup ==
    [][ last'.op = "uniform" =>
          LET table == shares[handles[last'.h]].uniforms IN
          /\ last'.ret = "ok"
          /\ last'.flag <=> last'.name \in DOMAIN table
          /\ last'.flag => last'.entry = table[last'.name]
          /\ ~last'.flag => last'.entry = NoEntry
          /\ shares' = shares
          /\ boundProgram' = boundProgram
          /\ current' = current ]_vars

\* A lookup that found its name, on a bound Shader.
C10_Witness ==
    /\ last.op = "uniform" /\ last.flag /\ last.name = "u_color"
    /\ \E t \in Threads : Reports(t, last.h)

\* The highest index at which the driver reported the name n.
LastIndexOf(au, n) ==
    CHOOSE k \in 1..Len(au) :
        au[k].name = n /\ \A j \in 1..Len(au) : au[j].name = n => j <= k

\* C11: after a construction that returned a Shader, its uniform table has one
\* entry per distinct name among the active uniforms the driver reported (as
\* many entries as uniforms when the names are distinct); an entry carries the
\* size and type of the highest index reporting its name, and the location the
\* driver resolves that name to.
C11_UniformRoundTrip ==
    Ended("Shader") =>
        LET table == shares[last.share].uniforms
            au == last.au
            names == { au[k].name : k \in 1..Len(au) }
        IN  /\ DOMAIN table = names
            /\ (Cardinality(names) = Len(au)) =>
                    Cardinality(DOMAIN table) = Len(au)
            /\ \A n \in names :
                  LET k == LastIndexOf(au, n) IN
                  table[n] = [size |-> au[k].size, type |-> au[k].type,
                              location |-> last.loc[n]]

\* Two indices reported the same name with different metadata.
C11_Witness ==
    /\ Ended("Shader") /\ Len(last.au) = 2
    /\ last.au[1].name = last.au[2].name /\ last.au[1] # last.au[2]
    /\ last.loc[last.au[1].name] = 0

\* C12: a construction whose link status is failed and whose link log length
\* reads 0 raises nothing: it returns a Shader whose stage handles are
\* detached and deleted, whose table was introspected and whose program is
\* live but not linked; a LinkError is raised only with a failed status and a
\* log length of at least 1.
C12_SwallowedLinkFailure ==
    /\ (last.op = "construct" /\ last.linked = "failed" /\ last.len = 0) =>
          /\ last.ret = "Shader"
          /\ Live(last.h) /\ handles[last.h] = last.share
          /\ \A id \in Range(last.ids) : Deleted(id)
          /\ shares[last.share].uniforms = initUniforms(last.au, last.loc)
          /\ programs[last.program].status = "live"
          /\ ~programs[last.program].linked
    /\ Ended("LinkError") => (last.linked = "failed" /\ last.len >= 1)
    /\ (Ended("Shader") /\ last.linked = "failed") => last.len = 0

\* A Shader over a program that failed to link, with a stage and a uniform.
C12_Witness ==
    /\ Ended("Shader") /\ last.linked = "failed" /\ last.len = 0
    /\ last.ids # <<>> /\ last.au # <<>>

\* The order of the stages as the claim states it, by slot.
StageOrder ==
    [i \in 1..5 |->
        CASE i = 1 -> "GL_VERTEX_SHADER"
          [] i = 2 -> "GL_TESS_CONTROL_SHADER"
          [] i = 3 -> "GL_TESS_EVALUATION_SHADER"
          [] i = 4 -> "GL_GEOMETRY_SHADER"
          [] i = 5 -> "GL_FRAGMENT_SHADER"]

\* C13: the stage loop takes the slots 1..5 in order, one per step, creating
\* for a non-empty slot one shader of that slot's type (vertex, tess-control,
\* tess-eval, geometry, fragment) and nothing for an empty one; a CompileError
\* is raised from inside the loop, at a slot i whose shader is the last one
\* created, with stage objects for slots up to i only, nothing attached to
\* the program, no link requested and no uniform table filled, and it ends
\* the construction: the loop takes no further slot.
C13_CompileFailureAborts ==
    [][ LET p == shares[ctor.share].program IN
        /\ last'.op = "stage" =>
              /\ ctor.pc = "compile" /\ last'.slot = ctor.i
              /\ ctor'.i = ctor.i + 1 /\ ctor.i \in 1..5
              /\ last'.kind # "none" =>
                    /\ last'.kind = StageOrder[ctor.i]
                    /\ ctor'.ids = ctor.ids \o last'.ids
                    /\ Len(last'.ids) = 1
              /\ last'.kind = "none" =>
                    (shaders' = shaders /\ ctor'.ids = ctor.ids)
        /\ (last'.op = "construct" /\ last'.ret = "CompileError") =>
              /\ ctor.pc = "compile" /\ ctor.i \in 1..5
              /\ Len(ctor.ids) <= ctor.i - 1
              /\ Len(last'.ids) = Len(ctor.ids) + 1
              /\ SubSeq(last'.ids, 1, Len(ctor.ids)) = ctor.ids
              /\ { id \in ShaderNames : shaders'[id].live /\ ~shaders[id].live }
                    = { last'.ids[Len(last'.ids)] }
              /\ \A id \in ShaderNames :
                    shaders[id].attached # p /\ shaders'[id].attached # p
              /\ ctor.linked = "none" /\ ~programs[p].linked
              /\ shares[ctor.share].uniforms = EmptyTable
              /\ ctor'.pc = "idle" /\ handles'[ctor.h] = 0
      ]_vars

\* A stage failed to compile, with its driver log, after an earlier stage
\* had compiled, while another Shader exists.
C13_Witness ==
    /\ Ended("CompileError") /\ Len(last.ids) = 2
    /\ last.src = <<"b", "c">> /\ last.log # <<>>
    /\ ctor.pc = "idle"
    /\ \E h \in Handles : Live(h)

\* C14: when a construction has failed with CompileError, the shader of the
\* failing stage and the shaders compiled for the earlier non-empty slots are
\* all still live in the driver, not deleted and not flagged for deletion.
C14_StageHandlesLeak ==
    Ended("CompileError") =>
        /\ last.ids # <<>>
        /\ \A id \in Range(last.ids) :
              shaders[id].live /\ ~shaders[id].flagged

\* The second non-empty stage failed: two handles are left behind.
C14_Witness ==
    /\ Ended("CompileError") /\ Len(last.ids) = 2
    /\ last.ids[1] # last.ids[2]
    /\ \A id \in Range(last.ids) : shaders[id].live

\* C15: every operation other than bind() (the steps of a construction, its
\* failure, copy, destroy, isBound(), uniform()) leaves every thread's
\* boundProgram as it was, also a destroy that deletes the program a thread
\* has bound; and no operation at all takes a thread's boundProgram from a
\* program back to 0.
C15_OnlyBindMutates ==
    [][ /\ last'.op # "bind" => boundProgram' = boundProgram
        /\ \A t \in Threads : boundProgram[t] # 0 => boundProgram'[t] # 0
      ]_vars

\* The program a thread has bound was deleted with its last Shader, and the
\* thread's slot still names it.
C15_Witness ==
    /\ last.op = "destroy" /\ last.deleted = 1
    /\ \E t \in Threads : boundProgram[t] = last.program
    /\ \A h \in Handles : ~Live(h)

\* C16: every thread's boundProgram starts at 0; a bind() of program p on
\* thread t calls glUseProgram exactly when boundProgram[t] differs from p
\* before the call, with p as the argument, and then leaves boundProgram[t]
\* equal to p; a bind() that makes no call leaves it as it was, and no other
\* operation calls glUseProgram or writes boundProgram. Hence boundProgram[t]
\* is always the argument of the latest glUseProgram call issued on t.
C16_TrackerMirrorsDriver ==
    /\ \A t \in Threads : boundProgram[t] = 0
    /\ [][ /\ last'.op = "bind" =>
                (LET t == last'.t
                     p == shares[handles[last'.h]].program
                 IN  /\ last'.program = p
                     /\ last'.used <=> (boundProgram[t] # p)
                     /\ last'.used => boundProgram'[t] = p
                     /\ ~last'.used => (boundProgram'[t] = boundProgram[t]
                                         /\ current' = current))
           /\ last'.op # "bind" =>
                (~last'.used /\ boundProgram' = boundProgram
                 /\ current' = current)
         ]_vars

\* A bind() that replaced another tracked program with its own.
C16_Witness ==
    /\ last.op = "bind" /\ last.used
    /\ boundProgram[last.t] = last.program
    /\ \E h \in Handles : Live(h) /\ ProgramOf(h) # last.program

\* The shaders attached to program p.
AttachedTo(p) == { id \in ShaderNames : shaders[id].attached = p }

\* C17: in a construction the stage handles are distinct and unattached while
\* the stages compile; all of them, and nothing else, are attached to the
\* program when the link is requested and still when its status has been
\* read; all of them are detached and deleted before the uniform table is
\* filled; and when the construction has returned a Shader none of them is
\* alive or attached, while the program lives on.
C17_OnlyProgramRemains ==
    LET p == shares[ctor.share].program
        ids == Range(ctor.ids)
    IN
    /\ ctor.pc \in {"compile", "link", "cleanup", "uniforms"} =>
          Cardinality(ids) = Len(ctor.ids)
    /\ ctor.pc = "compile" =>
          /\ AttachedTo(p) = {}
          /\ \A id \in ids : shaders[id].live
    /\ ctor.pc = "link" =>
          /\ ctor.linked = "none"
          /\ AttachedTo(p) = ids
          /\ \A id \in ids : shaders[id].live /\ ~shaders[id].flagged
    /\ ctor.pc = "cleanup" =>
          /\ ctor.linked # "none"
          /\ AttachedTo(p) = ids
          /\ \A id \in ids : shaders[id].live /\ ~shaders[id].flagged
          /\ shares[ctor.share].uniforms = EmptyTable
    /\ ctor.pc = "uniforms" =>
          /\ ctor.linked # "none"
          /\ AttachedTo(p) = {}
          /\ \A id \in ids : Deleted(id)
          /\ shares[ctor.share].uniforms = EmptyTable
    /\ Ended("Shader") =>
          /\ \A id \in Range(last.ids) : Deleted(id)
          /\ AttachedTo(last.program) = {}
          /\ programs[last.program].status = "live"
          /\ Live(last.h) /\ ProgramOf(last.h) = last.program

\* A Shader was returned over a linked program built from two stages.
C17_Witness ==
    /\ Ended("Shader") /\ last.linked = "ok" /\ Len(last.ids) = 2
    /\ programs[last.program].linked

\* C18 (as claimed): whenever a Shader s reports isBound() on a thread t,
\* either the step just taken is a bind() on t through a Shader holding s's
\* Shared, or s (or, for a fresh copy, the Shader it was copied from) held the
\* same Shared and reported bound on t before the step; so every report goes
\* back to a bind() on t of that Shared with no other bind() on t since, and
\* a Shader just constructed never reports bound.
C18_IsBoundImpliesBind ==
    [][ \A t \in Threads, h \in Handles :
          (handles'[h] # 0
           /\ isBound(boundProgram', t, shares'[handles'[h]].program)) =>
              \/ (last'.op = "bind" /\ last'.t = t
                  /\ last'.share = handles'[h])
              \/ (Live(h) /\ handles'[h] = handles[h] /\ Reports(t, h))
              \/ (last'.op = "copy" /\ last'.h = h
                  /\ \E g \in Handles :
                        Live(g) /\ handles[g] = handles'[h] /\ Reports(t, g))
      ]_vars

\* C19: on every thread, two live Shaders that hold different Shared records
\* never both report isBound(): at most one Shared is bound per thread.
C19_AtMostOneBound ==
    \A t \in Threads, a \in Handles, b \in Handles :
        (Live(a) /\ Live(b) /\ handles[a] # handles[b]) =>
            ~(Reports(t, a) /\ Reports(t, b))

\* Two Shaders over different programs, one of them bound on a thread where
\* the other was bound before.
C19_Witness ==
    /\ last.op = "bind" /\ last.used
    /\ \E b \in Handles :
          /\ Live(b) /\ handles[b] # handles[last.h]
          /\ current[last.t] = ProgramOf(last.h)
          /\ \E u \in Threads \ {last.t} : Reports(u, b)
    /\ Reports(last.t, last.h)

====
